---- MODULE Spec2Model ----
(***************************************************************************)
(* A model of secman.py: the secrets file is a sequence of lines, and each *)
(* operation of the module is one read-all / rewrite-in-place pass over    *)
(* it.                                                                     *)
(*                                                                         *)
(* A line is a record [k, ind, h, n, s, v, m].  Its text is, in order:     *)
(*   two blanks when ind = 1;                                              *)
(*   "# " when h = 1, "cfg." when h = 2;                                   *)
(*   the name: n followed by s copies of "_ENCRYPTED";                     *)
(*   then, by the kind k of the line,                                      *)
(*     k = "blank"     nothing (n = "", h = 0): a line that is empty after *)
(*                     strip()                                             *)
(*     k = "other"     nothing: a line with no "=", such as `import os`,   *)
(*                     `FOO_ENCRYPTED`, and with h = 1 the comment         *)
(*                     `# note`                                            *)
(*     k = "unquoted"  ` = ` and a number written without quotes:          *)
(*                     `NAME = 5`                                          *)
(*     k = "assign"    ` = "`, the text of the value v and `"`:            *)
(*                     `NAME = "value"`, followed by the trailing comment  *)
(*                     `    #env,signature,timestamp` when m # NoMeta      *)
(* n is an identifier (letters, digits, "_") that does not end in          *)
(* "_ENCRYPTED", or for a line of kind "other" a text without "=", "#",    *)
(* quotes or blanks at its ends.  The code tests the first character of a  *)
(* line, so a line is a comment for it when h = 1 and ind = 0, whatever    *)
(* its kind: `# FOO = "x"` is one, `  # FOO = "x"` is none.  h = 2 stands  *)
(* on lines with "=" only: `cfg.FOO = "x"` is the line of a name that is  *)
(* no identifier, as the text before "=" may be any text.                 *)
(*                                                                         *)
(* A value is a text pt under the layers applied to it, innermost first:   *)
(* a cipher layer [key, iv] makes a token of the text below it; a layer    *)
(* [q, m] appends to it a quote (when q) and the trailing comment          *)
(* `    #env,signature,timestamp` of m, which is what strip('"') leaves    *)
(* of a quoted value that is followed by a comment.  pt has no quotes.     *)
(*                                                                         *)
(* A timestamp is named by a number from 1 on.  Two stamps with the same   *)
(* number are the same text; the numbers say nothing about which of two    *)
(* stamps is the earlier one (the wall clock the code reads may stand      *)
(* still, run on, or be set back between two readings).  0 is no stamp.    *)
(***************************************************************************)
EXTENDS Integers, Sequences, FiniteSets, TLC

\* Longest file Init starts from, and number of operations of one run.
MaxLen == 2
MaxOps == 2

----------------------------------------------------------------------------
\* Values, keys and the cipher

\* os.getenv gives None for a variable that is not set.
None == "<None>"

\* Well-formed Fernet keys; any other key string is rejected by the cipher.
ValidKeys == {"K1", "K2"}

\* The environment variable the file declares, and the one -m switches to.
KeyEnvName == "APP_KEY"
AltEnvName == "ALT_KEY"

Plain(str) == [pt |-> str, layers |-> <<>>]

\* Python truthiness of an optional string.
Truthy(x) == x # None /\ x # ""

IsCipher(layer) == "key" \in DOMAIN layer

\* crypto_utils.encrypt_value: an authenticated symmetric cipher; the token
\* embeds the time of encryption (iv).  Fails on a key that is not well formed.
encrypt_value(value, key, iv) ==
  [ok  |-> key \in ValidKeys,
   val |-> [pt |-> value.pt,
            layers |-> Append(value.layers, [key |-> key, iv |-> iv])]]

\* crypto_utils.decrypt_value: fails on a key that is not well formed, on a
\* token made under another key and on a string that is no token at all.
decrypt_value(value, key) ==
  LET n == Len(value.layers) IN
  IF key \in ValidKeys /\ n > 0 /\ IsCipher(value.layers[n])
     /\ value.layers[n].key = key
  THEN [ok |-> TRUE,
        val |-> [pt |-> value.pt, layers |-> SubSeq(value.layers, 1, n - 1)]]
  ELSE [ok |-> FALSE, val |-> value]

----------------------------------------------------------------------------
\* Lines

NoSig  == [alg |-> "", key |-> ""]
NoMeta == [env |-> "", sig |-> NoSig, ts |-> 0]

Name(base) == [n |-> base, s |-> 0, h |-> 0]
\* "# " + name
Hash(name) == [name EXCEPT !.h = 1]
\* "cfg." + name
Dot(name) == [name EXCEPT !.h = 2]
\* name + "_ENCRYPTED"
Enc(name) == [name EXCEPT !.s = @ + 1]
\* name[:-10]
Strip10(name) == [name EXCEPT !.s = @ - 1]

Blank ==
  [k |-> "blank", ind |-> 0, h |-> 0, n |-> "", s |-> 0, v |-> Plain(""),
   m |-> NoMeta]
Other(name) ==
  [k |-> "other", ind |-> 0, h |-> name.h, n |-> name.n, s |-> name.s,
   v |-> Plain(""), m |-> NoMeta]
Unquoted(name, raw) ==
  [k |-> "unquoted", ind |-> 0, h |-> name.h, n |-> name.n, s |-> name.s,
   v |-> Plain(raw), m |-> NoMeta]
Assign(name, value, meta) ==
  [k |-> "assign", ind |-> 0, h |-> name.h, n |-> name.n, s |-> name.s,
   v |-> value, m |-> meta]
\* `# text`
Comment(text) == Other(Hash(Name(text)))
\* The line with two blanks before it
Indent(line) == [line EXCEPT !.ind = 1]

\* name.endswith("_ENCRYPTED")
EndsEncrypted(name) == name.s > 0

HEADER_DISCLAIMER ==
  Comment("Generated by secman.py. Do not edit manually, unless you know what you are doing")

MASTER_KEY_ENV == Name("MASTER_KEY_ENV")

\* line.startswith("#")
StartsWithHash(line) == line.k # "blank" /\ line.ind = 0 /\ line.h = 1

\* The test without its second half: blank lines fall through to the parsing.
IsCommentOrBlank_CommentOnly(line) == StartsWithHash(line)

\* line.startswith("#") or line.strip() == ""
IsCommentOrBlank(line) == StartsWithHash(line) \/ line.k = "blank"

\* The test left out: every line that is no comment is split at "=".
HasEquals_NotChecked(line) == line.k \in {"unquoted", "assign", "other"}

\* "=" in line
HasEquals(line) == line.k \in {"unquoted", "assign"}

\* line.split("=")[0].strip(): the text before the first "=", the whole text
\* of a line that has none, without the blanks around it
SplitName(line) == [n |-> line.n, s |-> line.s, h |-> line.h]

\* The identifier that stands before "=": what the patterns anchored with
\* ^\s* and the pattern of decrypt_secrets capture as the name
Identifier(line) == [n |-> line.n, s |-> line.s, h |-> 0]

\* A pattern ^\s*NAME\s*= matches: blanks may stand before the name, "# "
\* and "cfg." may not
AnchoredMatch(line) == HasEquals(line) /\ line.h = 0

\* line.strip() == HEADER_DISCLAIMER
IsDisclaimer(line) ==
  line.k = "other" /\ SplitName(line) = SplitName(HEADER_DISCLAIMER)

\* The text of a value as a string, for the values that are looked up as
\* names of environment variables
Text(value) == IF value.layers = <<>> THEN value.pt ELSE ToString(value)

\* value + ('"' if q) + "    #env,signature,timestamp"
WithComment(value, q, meta) ==
  [pt |-> value.pt, layers |-> Append(value.layers, [q |-> q, m |-> meta])]

\* line.split("=", 1)[1].strip().strip('"'): the text after "=" without the
\* quotes at its two ends.  Of `"bar"    #c` that is `bar"    #c`, and of
\* `""    #c`, where both quotes stand at the left end, `    #c`
ValueText(line) ==
  IF line.m = NoMeta THEN line.v
  ELSE WithComment(line.v, line.v # Plain(""), line.m)

\* The index of the last cipher layer of a value, 0 when it has none
RECURSIVE LastCipher(_, _)
LastCipher(layers, i) ==
  IF i = 0 THEN 0
  ELSE IF IsCipher(layers[i]) THEN i
  ELSE LastCipher(layers, i - 1)

\* The layers up to the first quote that stands in the text: those before
\* the first layer [q = TRUE] above the last cipher layer
RECURSIVE UpToQuote(_, _)
UpToQuote(layers, i) ==
  IF i > Len(layers) THEN layers
  ELSE IF layers[i].q THEN SubSeq(layers, 1, i - 1)
  ELSE UpToQuote(layers, i + 1)

\* group(2) of ["\'](.*?)["\']: the text between the first quote and the
\* next one, which is the string Python reads as well
QuotedValue(value) ==
  [pt |-> value.pt,
   layers |-> UpToQuote(value.layers,
                        LastCipher(value.layers, Len(value.layers)) + 1)]

\* A pattern that finds the quoted _ENCRYPTED assignments only.
QuotedMatch_RecordsOnly(line) == line.k = "assign" /\ line.s > 0

\* re.search(r'([a-zA-Z_][a-zA-Z0-9_]*)\s*=\s*["\'](.*?)["\']', line)
\* anywhere in the line: whatever stands before the identifier is passed over
QuotedMatch(line) == line.k = "assign"

\* re.match(r"^\s*MASTER_KEY_ENV\s*=", line)
KeyDeclMatch(line) == AnchoredMatch(line) /\ Identifier(line) = MASTER_KEY_ENV

----------------------------------------------------------------------------
\* The operations as functions from the lines read to the lines written

RECURSIVE Names(_, _)
\* list_secrets: the names printed, in file order
Names(lines, i) ==
  IF i > Len(lines) THEN <<>>
  ELSE IF IsCommentOrBlank(lines[i]) THEN Names(lines, i + 1)
  ELSE <<SplitName(lines[i])>> \o Names(lines, i + 1)

\* The loop entered at the second line.
list_secrets_FromSecond(lines) == Names(lines, 2)

list_secrets(lines) == Names(lines, 1)

\* delete_secret, the test of one line: TRUE when the line is written back
DeleteKeeps(line, secret_name) ==
  IsCommentOrBlank(line) \/ SplitName(line) # secret_name

RECURSIVE DeleteLoop(_, _, _)
DeleteLoop(lines, i, secret_name) ==
  IF i > Len(lines) THEN <<>>
  ELSE (IF DeleteKeeps(lines[i], secret_name) THEN <<lines[i]>> ELSE <<>>)
       \o DeleteLoop(lines, i + 1, secret_name)

delete_secret(lines, secret_name) == DeleteLoop(lines, 1, secret_name)

\* encrypt_secrets: the names X for which a line X_ENCRYPTED = ... exists,
\* re.match(r"^\s*([a-zA-Z_][a-zA-Z0-9_]*)_ENCRYPTED\s*=", line)
EncryptedNames(lines) ==
  {Strip10(Identifier(lines[i])) :
     i \in {j \in 1..Len(lines) : AnchoredMatch(lines[j]) /\ lines[j].s > 0}}

\* base64(sha512(master_key))[-8:]
Signature(master_key) == [alg |-> "sha512", key |-> master_key]

\* The loop body with a skipped secret written back as it was read.
EncryptLine_SkipVerbatim(line, encrypted_secrets, master_key_env, master_key, now, iv) ==
  IF IsCommentOrBlank(line) \/ ~HasEquals(line)
  THEN [ok |-> TRUE, out |-> <<line>>, cnt |-> 0]
  ELSE LET secret_name == SplitName(line)
           secret_value == ValueText(line)
       IN IF secret_name = MASTER_KEY_ENV
          THEN [ok |-> TRUE, out |-> <<line>>, cnt |-> 0]
          ELSE IF EndsEncrypted(secret_name)
          THEN [ok |-> TRUE, out |-> <<line>>, cnt |-> 0]
          ELSE IF secret_name \in encrypted_secrets
          THEN [ok |-> TRUE, out |-> <<line>>, cnt |-> 0]
          ELSE LET e == encrypt_value(secret_value, master_key, iv)
               IN IF ~e.ok
                  THEN [ok |-> FALSE, out |-> <<>>, cnt |-> 0]
                  ELSE [ok |-> TRUE,
                        out |-> <<Assign(secret_name, Plain(""), NoMeta),
                                  Assign(Enc(secret_name), e.val,
                                         [env |-> master_key_env,
                                          sig |-> Signature(master_key),
                                          ts |-> now])>>,
                        cnt |-> 1]

\* encrypt_secrets, the body of the loop for one line: what it writes, what
\* it adds to the count, and ok = FALSE when it leaves through sys.exit(1)
EncryptLine(line, encrypted_secrets, master_key_env, master_key, now, iv) ==
  IF IsCommentOrBlank(line) \/ ~HasEquals(line)
  THEN [ok |-> TRUE, out |-> <<line>>, cnt |-> 0]
  ELSE LET secret_name == SplitName(line)
           secret_value == ValueText(line)
       IN IF secret_name = MASTER_KEY_ENV
          THEN [ok |-> TRUE, out |-> <<line>>, cnt |-> 0]
          ELSE IF EndsEncrypted(secret_name)
          THEN [ok |-> TRUE, out |-> <<line>>, cnt |-> 0]
          ELSE IF secret_name \in encrypted_secrets
          THEN [ok |-> TRUE,
                out |-> <<Assign(secret_name, Plain(""), NoMeta)>>,
                cnt |-> 0]
          ELSE LET e == encrypt_value(secret_value, master_key, iv)
               IN IF ~e.ok
                  THEN [ok |-> FALSE, out |-> <<>>, cnt |-> 0]
                  ELSE [ok |-> TRUE,
                        out |-> <<Assign(secret_name, Plain(""), NoMeta),
                                  Assign(Enc(secret_name), e.val,
                                         [env |-> master_key_env,
                                          sig |-> Signature(master_key),
                                          ts |-> now])>>,
                        cnt |-> 1]

\* The loop over the lines.  times holds the readings of the clock still to
\* come, in order: each secret encrypted takes the next one for its stamp
\* (none is left where the cipher fails: the clock is read after it).  tokens
\* is the number of tokens made before: no two tokens are the same text.
RECURSIVE EncryptLoop(_, _, _, _, _, _, _)
EncryptLoop(lines, i, encrypted_secrets, master_key_env, master_key, times, tokens) ==
  IF i > Len(lines) THEN [ok |-> TRUE, out |-> <<>>, cnt |-> 0]
  ELSE LET r == EncryptLine(lines[i], encrypted_secrets, master_key_env,
                            master_key,
                            IF times = <<>> THEN 0 ELSE Head(times),
                            tokens + 1)
       IN IF ~r.ok THEN r
          ELSE LET rest == EncryptLoop(lines, i + 1, encrypted_secrets,
                                       master_key_env, master_key,
                                       IF r.cnt = 1 THEN Tail(times)
                                       ELSE times,
                                       tokens + r.cnt)
               IN [ok |-> rest.ok, out |-> r.out \o rest.out,
                   cnt |-> r.cnt + rest.cnt]

\* The disclaimer written without looking at the first line.
HeaderWritten_Always(lines) == <<HEADER_DISCLAIMER>>

\* if lines[0].strip() != HEADER_DISCLAIMER: file.write(HEADER_DISCLAIMER)
HeaderWritten(lines) ==
  IF ~IsDisclaimer(lines[1]) THEN <<HEADER_DISCLAIMER>> ELSE <<>>

\* The count started at one.
encrypt_secrets_CountFromOne(lines, master_key_env, master_key, times, tokens) ==
  LET r == EncryptLoop(lines, 1, EncryptedNames(lines), master_key_env,
                       master_key, times, tokens)
  IN [status |-> IF r.ok THEN "ok" ELSE "exit",
      post   |-> HeaderWritten(lines) \o r.out,
      ret    |-> r.cnt + 1]

\* encrypt_secrets on a file that has at least one line: the file left on
\* disk, the count, and how the call ended
encrypt_secrets(lines, master_key_env, master_key, times, tokens) ==
  LET r == EncryptLoop(lines, 1, EncryptedNames(lines), master_key_env,
                       master_key, times, tokens)
  IN [status |-> IF r.ok THEN "ok" ELSE "exit",
      post   |-> HeaderWritten(lines) \o r.out,
      ret    |-> r.cnt]

\* The set of declared X_ENCRYPTED names never filled.
EncryptedDeclared_None(lines) == {}

\* decrypt_secrets: the names X_ENCRYPTED that are declared,
\* re.match(r"^\s*([a-zA-Z_][a-zA-Z0-9_]*_ENCRYPTED)\s*=", line)
EncryptedDeclared(lines) ==
  {Identifier(lines[i]) :
     i \in {j \in 1..Len(lines) : AnchoredMatch(lines[j]) /\ lines[j].s > 0}}

\* decrypt_secrets, the body of the loop for one line; ok = FALSE when
\* decrypt_value raises
DecryptLine(line, encrypted_secrets, master_key) ==
  IF IsCommentOrBlank(line) THEN [ok |-> TRUE, out |-> <<line>>]
  ELSE IF ~QuotedMatch(line) THEN [ok |-> TRUE, out |-> <<>>]
  ELSE LET secret_name == Identifier(line)
           encrypted_value == QuotedValue(line.v)
       IN IF secret_name = MASTER_KEY_ENV
          THEN [ok |-> TRUE, out |-> <<line>>]
          ELSE IF ~EndsEncrypted(secret_name)
                  /\ Enc(secret_name) \notin encrypted_secrets
          THEN [ok |-> TRUE,
                out |-> <<Assign(secret_name, encrypted_value, NoMeta)>>]
          ELSE IF EndsEncrypted(secret_name)
          THEN LET d == decrypt_value(encrypted_value, master_key)
               IN IF ~d.ok THEN [ok |-> FALSE, out |-> <<>>]
                  ELSE [ok |-> TRUE,
                        out |-> <<Assign(Strip10(secret_name), d.val, NoMeta)>>]
          ELSE [ok |-> TRUE, out |-> <<>>]

RECURSIVE DecryptLoop(_, _, _, _)
DecryptLoop(lines, i, encrypted_secrets, master_key) ==
  IF i > Len(lines) THEN [ok |-> TRUE, out |-> <<>>]
  ELSE LET r == DecryptLine(lines[i], encrypted_secrets, master_key)
       IN IF ~r.ok THEN r
          ELSE LET rest == DecryptLoop(lines, i + 1, encrypted_secrets,
                                       master_key)
               IN [ok |-> rest.ok, out |-> r.out \o rest.out]

\* decrypt_secrets once the key has been found: the file left on disk and
\* how the call ended
decrypt_secrets(lines, master_key) ==
  LET r == DecryptLoop(lines, 1, EncryptedDeclared(lines), master_key)
  IN [status |-> IF r.ok THEN "ok" ELSE "raise", post |-> r.out]

\* The pattern without the name: every assignment is taken for the declaration.
SetKeyLine_AnyAssignment(line, master_key_env) ==
  IF HasEquals(line)
  THEN Assign(MASTER_KEY_ENV, Plain(master_key_env), NoMeta)
  ELSE line

\* set_master_key, one line
SetKeyLine(line, master_key_env) ==
  IF KeyDeclMatch(line)
  THEN Assign(MASTER_KEY_ENV, Plain(master_key_env), NoMeta)
  ELSE line

set_master_key(lines, master_key_env) ==
  [i \in 1..Len(lines) |-> SetKeyLine(lines[i], master_key_env)]

----------------------------------------------------------------------------
\* The state: the file on disk, the value of the environment variable
\* APP_KEY in the process environment, the bytecode Python keeps of the file
\* once main() has imported it, and the log of the calls made so far (each
\* with the file it read).

VARIABLES file, env, pyc, hist

vars == <<file, env, pyc, hist>>

\* os.getenv(name): APP_KEY is the only key variable the environment may hold
getenv(name) == IF name = KeyEnvName THEN env ELSE None

SetMax(S) == IF S = {} THEN 0 ELSE CHOOSE x \in S : \A y \in S : y <= x

\* The stamps that stand in a file, and the serial numbers of its tokens
StampsOf(line) ==
  {line.m.ts} \cup {line.v.layers[i].m.ts :
                      i \in {j \in 1..Len(line.v.layers) :
                               ~IsCipher(line.v.layers[j])}}
TokensOf(line) ==
  {line.v.layers[i].iv :
     i \in {j \in 1..Len(line.v.layers) : IsCipher(line.v.layers[j])}}
MaxStamp(lines) == SetMax(UNION {StampsOf(lines[i]) : i \in 1..Len(lines)})
MaxToken(lines) == SetMax(UNION {TokensOf(lines[i]) : i \in 1..Len(lines)})

\* The number of different seconds the stamps written so far name, and the
\* number of tokens made so far
seen == IF hist = <<>> THEN MaxStamp(file) ELSE hist[Len(hist)].seen
made == IF hist = <<>> THEN MaxToken(file) ELSE hist[Len(hist)].made

\* datetime.datetime.now().strftime("%Y-%m-%d %H:%M:%S"), read k times: each
\* reading is a second that a stamp written before names, or one that none
\* names (the next number)
RECURSIVE Readings(_, _)
Readings(k, known) ==
  IF k = 0 THEN {<<>>}
  ELSE UNION {{<<t>> \o rest :
                 rest \in Readings(k - 1, IF t > known THEN t ELSE known)} :
              t \in 1..(known + 1)}

NoName == Name("")

Call(op, name, keyenv, arg, key, status, ret, out, post) ==
  [op |-> op, via |-> "call", name |-> name, keyenv |-> keyenv, arg |-> arg,
   key |-> key, seen |-> seen, made |-> made, status |-> status,
   ret |-> ret, out |-> out, pre |-> file, post |-> post, wrote |-> TRUE]

\* The call opened no file for writing
ReadOnly(call) == [call EXCEPT !.wrote = FALSE]

\* The same call made by main() for a command-line switch.
ViaMain(call) == [call EXCEPT !.via = "main"]

\* No bytecode has been written
NoPyc == [cached |-> FALSE, src |-> <<>>, fresh |-> FALSE]

\* The bytecode of the lines src.  Python takes it in place of the file as
\* long as the file has the modification time (in whole seconds) and the
\* size it had when it was compiled; fresh tells that the time is the same.
Compiled(src) == [cached |-> TRUE, src |-> src, fresh |-> TRUE]

\* A write of the file sets its modification time to the time of the write,
\* which may fall in the second the bytecode has recorded
Touched(cache, wrote) ==
  IF cache.cached /\ wrote
  THEN {[cache EXCEPT !.fresh = b] : b \in BOOLEAN}
  ELSE {cache}

\* The call ends: the file on disk is post, and the call is logged with the
\* file it read (the file it left is the one the next call reads).
FinishWith(call, cache) ==
  /\ file' = call.post
  /\ hist' = Append(hist, [op |-> call.op, via |-> call.via,
                           name |-> call.name, keyenv |-> call.keyenv,
                           arg |-> call.arg, key |-> call.key,
                           seen |-> call.seen, made |-> call.made,
                           status |-> call.status, ret |-> call.ret,
                           out |-> call.out, pre |-> call.pre])
  /\ env' = env
  /\ pyc' \in Touched(cache, call.wrote)

Finish(call) == FinishWith(call, pyc)

\* Lines a file may be written with before secman.py first touches it.
FOO == Name("FOO")
BAR == Name("BAR")
OldMeta == [env |-> KeyEnvName, sig |-> Signature("K1"), ts |-> 1]
OldToken == encrypt_value(Plain("old"), "K1", 1).val

InitLines ==
  { HEADER_DISCLAIMER, Other(Name("import os")), Unquoted(FOO, "5"),
    Assign(MASTER_KEY_ENV, Plain(KeyEnvName), NoMeta),
    Assign(FOO, Plain("bar"), NoMeta), Assign(FOO, Plain(""), NoMeta),
    Assign(BAR, Plain("baz"), NoMeta),
    Assign(Enc(FOO), OldToken, OldMeta) }

\* A line that is no comment for the code although "#" stands before its
\* name: `  # FOO = "x"`
HashedLine == Indent(Assign(Hash(FOO), Plain("x"), NoMeta))

\* `cfg.FOO = "x"`: a line with "=" whose name is no identifier
DottedLine == Assign(Dot(FOO), Plain("x"), NoMeta)

InitFiles == UNION {[1..n -> InitLines] : n \in 1..MaxLen}

EnvValues == {None, "", "K1", "BAD"}

Init ==
  /\ file \in InitFiles
  /\ env \in EnvValues
  /\ pyc = NoPyc
  /\ hist = <<>>

CanCall == Len(hist) < MaxOps

\* list_secrets(file_path)
ListSecrets ==
  /\ CanCall
  /\ Finish(ReadOnly(Call("list", NoName, "", None, None, "ok", 0,
                          list_secrets(file), file)))

\* delete_secret(file_path, secret_name)
DeleteNames == {FOO, Enc(FOO)}

DeleteSecret ==
  /\ CanCall
  /\ \E secret_name \in DeleteNames :
       Finish(Call("delete", secret_name, "", None, None, "ok", 0, <<>>,
                   delete_secret(file, secret_name)))

\* master_key = master_key or os.getenv(master_key_env)
EncryptKey(master_key_env, master_key) ==
  IF ~Truthy(master_key) THEN getenv(master_key_env) ELSE master_key

\* encrypt_secrets(file_path, master_key_env, master_key): the call as a
\* whole; on an empty file lines[0] raises IndexError after the file has
\* been opened for writing
EncryptCall(master_key_env, master_key, times) ==
  LET key   == EncryptKey(master_key_env, master_key)
      r     == encrypt_secrets(file, master_key_env,
                               IF key = None THEN "None" ELSE key, times,
                               made)
      call  == Call("encrypt", NoName, master_key_env, master_key, key,
                    r.status, r.ret, <<>>, r.post)
  IN IF file = <<>>
     THEN Call("encrypt", NoName, master_key_env, master_key, key,
               "raise", 0, <<>>, <<>>)
     ELSE [call EXCEPT !.seen = SetMax({seen} \cup {times[i] : i \in 1..Len(times)}),
                       !.made = made + Len(times)]

\* The number of times the call reads the clock: once for each secret it
\* encrypts
EncryptReads(master_key_env, master_key) ==
  LET key == EncryptKey(master_key_env, master_key)
  IN EncryptLoop(file, 1, EncryptedNames(file), master_key_env,
                 IF key = None THEN "None" ELSE key,
                 [i \in 1..Len(file) |-> 0], 0).cnt

\* The readings a call may make
EncryptTimes(master_key_env, master_key) ==
  Readings(EncryptReads(master_key_env, master_key), seen)

KeyArgs == {None, "K2"}

EncryptSecrets ==
  /\ CanCall
  /\ \E master_key \in KeyArgs :
       \E times \in EncryptTimes(KeyEnvName, master_key) :
         Finish(EncryptCall(KeyEnvName, master_key, times))

\* decrypt_secrets without the test of the key it looked up.
DecryptCall_NoGuard(master_key_env, master_key) ==
  LET key == getenv(master_key_env)
      r   == decrypt_secrets(file, key)
  IN Call("decrypt", NoName, master_key_env, master_key, key,
          r.status, 0, <<>>, r.post)

\* decrypt_secrets(file_path, master_key_env, master_key): the argument
\* master_key is overwritten by the environment's value
DecryptCall(master_key_env, master_key) ==
  LET key == getenv(master_key_env)
      r   == decrypt_secrets(file, key)
  IN IF ~Truthy(key)
     THEN ReadOnly(Call("decrypt", NoName, master_key_env, master_key, key,
                        "error", 0, <<>>, file))
     ELSE Call("decrypt", NoName, master_key_env, master_key, key,
               r.status, 0, <<>>, r.post)

\* The master_key argument of decrypt_secrets is never read (it is overwritten
\* first), so one value stands for all.
DecryptArgs == {"K2"}

DecryptSecrets ==
  /\ CanCall
  /\ \E master_key \in DecryptArgs :
       Finish(DecryptCall(KeyEnvName, master_key))

\* set_master_key(file_path, master_key_env)
SetMasterKey ==
  /\ CanCall
  /\ Finish(Call("setkey", NoName, AltEnvName, None, None, "ok", 0, <<>>,
                 set_master_key(file, AltEnvName)))

----------------------------------------------------------------------------
\* main(): the file is imported as a Python module before the switches are
\* looked at

\* Texts with no "=" that Python executes without error wherever they stand
Statements == {Name("import os")}

\* A line Python takes for an assignment that binds the name (`cfg.FOO = 1`
\* binds none)
Binds(line) == HasEquals(line) /\ line.h = 0

\* Compiling the file: a line that is neither blank nor a comment and has
\* blanks before it is an IndentationError
Compiles(lines) ==
  \A i \in 1..Len(lines) :
    lines[i].k = "blank" \/ lines[i].h = 1 \/ lines[i].ind = 0

\* exec of the i-th line: comments, blanks and assignments to a name run; a
\* name standing alone (`FOO`, `FOO_ENCRYPTED`) raises NameError unless a
\* line above has assigned it; `cfg.FOO = "x"` raises NameError, or
\* AttributeError where a line above has assigned a string or a number to
\* cfg
Executes(lines, i) ==
  \/ lines[i].k # "other" /\ lines[i].h # 2
  \/ lines[i].h = 1
  \/ SplitName(lines[i]) \in Statements
  \/ /\ lines[i].h = 0
     /\ \E j \in 1..(i - 1) :
          Binds(lines[j]) /\ SplitName(lines[j]) = SplitName(lines[i])

Runs(lines) == \A i \in 1..Len(lines) : Executes(lines, i)

\* Length of lines as text
MetaLen(meta) == Len(meta.env) + 34
\* A Fernet token of a text of n bytes: version, time, IV, the text padded to
\* whole blocks of 16 and a MAC of 32 bytes, in base64
TokenLen(n) == 4 * ((57 + 16 * (n \div 16 + 1) + 2) \div 3)

RECURSIVE LayersLen(_, _, _)
LayersLen(layers, i, n) ==
  IF i > Len(layers) THEN n
  ELSE LayersLen(layers, i + 1,
                 IF IsCipher(layers[i]) THEN TokenLen(n)
                 ELSE n + (IF layers[i].q THEN 1 ELSE 0)
                        + MetaLen(layers[i].m))

ValueLen(value) == LayersLen(value.layers, 1, Len(value.pt))

\* Length of "# " and of "cfg."
PrefixLen(h) == IF h = 1 THEN 2 ELSE IF h = 2 THEN 4 ELSE 0

LineLen(line) ==
  2 * line.ind + PrefixLen(line.h) + Len(line.n) + 10 * line.s + 1
  + (IF line.k = "unquoted" THEN 3 + Len(line.v.pt)
     ELSE IF line.k = "assign"
     THEN 5 + ValueLen(line.v)
          + (IF line.m = NoMeta THEN 0 ELSE MetaLen(line.m))
     ELSE 0)

\* os.stat(filename).st_size
RECURSIVE Size(_)
Size(lines) ==
  IF lines = <<>> THEN 0 ELSE LineLen(Head(lines)) + Size(Tail(lines))

\* load_config_file(module_name, filename): the file is executed as Python,
\* from the bytecode kept of it when that is still taken for valid, else
\* from its text, which is compiled and the bytecode kept.  ok is FALSE
\* when this raises, where the function prints and leaves through
\* sys.exit(1); src is the text the module was made from.
load_config_file(lines) ==
  IF pyc.cached /\ pyc.fresh /\ Size(pyc.src) = Size(lines)
  THEN [ok |-> Runs(pyc.src), src |-> pyc.src, pyc |-> pyc]
  ELSE IF ~Compiles(lines)
  THEN [ok |-> FALSE, src |-> lines, pyc |-> pyc]
  ELSE [ok |-> Runs(lines), src |-> lines, pyc |-> Compiled(lines)]

\* The attribute MASTER_KEY_ENV of the module loaded: the value of the last
\* assignment to it, a string when it is quoted and a number when it is
\* not; reading it raises AttributeError when there is none
RECURSIVE LastKeyDecl(_, _)
LastKeyDecl(lines, i) ==
  IF i = 0 THEN [kind |-> "none", val |-> None]
  ELSE IF Binds(lines[i]) /\ SplitName(lines[i]) = MASTER_KEY_ENV
  THEN [kind |-> IF lines[i].k = "assign" THEN "str" ELSE "int",
        val  |-> Text(QuotedValue(lines[i].v))]
  ELSE LastKeyDecl(lines, i - 1)

psecrets == load_config_file(file)

psecrets_MASTER_KEY_ENV == LastKeyDecl(psecrets.src, Len(psecrets.src))

\* get_master_key(env_variable): "ok" when it returns the key, "exit" when
\* it prints an error and leaves through sys.exit(1), "raise" when
\* os.getenv is handed a number (TypeError)
get_master_key(env_variable) ==
  IF env_variable.kind = "int"
  THEN (IF env_variable.val = "0" THEN "exit" ELSE "raise")
  ELSE IF Truthy(env_variable.val) /\ Truthy(getenv(env_variable.val))
  THEN "ok"
  ELSE "exit"

\* main(), up to the call of the operation, for the switches -e and -d:
\* "ok" when the operation is called, else how main() ends
MainReady ==
  IF ~psecrets.ok THEN "exit"
  ELSE IF psecrets_MASTER_KEY_ENV.kind = "none" THEN "raise"
  ELSE get_master_key(psecrets_MASTER_KEY_ENV)

MainAborts(op) ==
  ReadOnly(ViaMain(Call(op, NoName, psecrets_MASTER_KEY_ENV.val, None,
                        getenv(psecrets_MASTER_KEY_ENV.val), MainReady, 0,
                        <<>>, file)))

\* main() with -e: n = encrypt_secrets(args.file, psecrets.MASTER_KEY_ENV)
MainEncrypt ==
  /\ CanCall
  /\ IF MainReady = "ok"
     THEN \E times \in EncryptTimes(psecrets_MASTER_KEY_ENV.val, None) :
            FinishWith(ViaMain(EncryptCall(psecrets_MASTER_KEY_ENV.val,
                                           None, times)),
                       psecrets.pyc)
     ELSE FinishWith(MainAborts("encrypt"), psecrets.pyc)

\* main() with -d:
\* decrypt_secrets(args.file, psecrets.MASTER_KEY_ENV, master_key)
MainDecrypt ==
  /\ CanCall
  /\ FinishWith(IF MainReady = "ok"
                THEN ViaMain(DecryptCall(psecrets_MASTER_KEY_ENV.val,
                                         getenv(psecrets_MASTER_KEY_ENV.val)))
                ELSE MainAborts("decrypt"),
                psecrets.pyc)

\* main() with -m NAME: set_master_key(args.file, args.master_key_env),
\* once the file has been loaded
MainSetKey ==
  /\ CanCall
  /\ FinishWith(ViaMain(
       IF psecrets.ok
       THEN Call("setkey", NoName, AltEnvName, None, None, "ok", 0, <<>>,
                 set_master_key(file, AltEnvName))
       ELSE ReadOnly(Call("setkey", NoName, AltEnvName, None, None, "exit",
                          0, <<>>, file))),
       psecrets.pyc)

\* main() with -l: list_secrets(args.file), once the file has been loaded
MainList ==
  /\ CanCall
  /\ FinishWith(ViaMain(ReadOnly(
       IF psecrets.ok
       THEN Call("list", NoName, "", None, None, "ok", 0,
                 list_secrets(file), file)
       ELSE Call("list", NoName, "", None, None, "exit", 0, <<>>, file))),
       psecrets.pyc)

\* main() calling none of the operations on the file: the file has been
\* loaded, and the bytecode of it kept, before the switches are looked at
LoadOnly ==
  /\ pyc' = psecrets.pyc
  /\ UNCHANGED <<file, env, hist>>

\* main() with -k: generate_key()
MainKey == LoadOnly

\* main() with -c OLD NEW: get_master_key, then convert_secrets, which
\* prints NOT IMPLEMENTED YET and leaves through sys.exit(0)
MainConvert == LoadOnly

\* main() with no switch: parser.print_help()
MainHelp == LoadOnly

\* The operations called as functions.
Next ==
  \/ ListSecrets
  \/ DeleteSecret
  \/ EncryptSecrets
  \/ DecryptSecrets
  \/ SetMasterKey

Spec == Init /\ [][Next]_vars

\* The operations run from the command line.
NextMain ==
  \/ MainEncrypt
  \/ MainDecrypt
  \/ MainSetKey
  \/ MainList
  \/ MainKey
  \/ MainConvert
  \/ MainHelp

\* Files main() may be run on: with comments and blank lines, with lines
\* that have blanks before them, and with a line Python compiles and fails
\* to execute.
MainLines ==
  InitLines \cup {Comment("note"), Blank, HashedLine, DottedLine,
                  Indent(Assign(BAR, Plain("baz"), NoMeta))}

MainFiles == UNION {[1..n -> MainLines] : n \in 1..MaxLen}

InitMain ==
  /\ file \in MainFiles
  /\ env \in EnvValues
  /\ pyc = NoPyc
  /\ hist = <<>>

SpecMain == InitMain /\ [][NextMain]_vars

\* Files that may hold lines with blanks before "#", which
\* line.startswith("#") does not take for comments: the disclaimer, which
\* line.strip() takes for the disclaimer, and `  # FOO = "x"`, which has
\* "=" and a quoted value.
IndentedLines ==
  { Comment("note"), Blank, Indent(HEADER_DISCLAIMER), HashedLine,
    Unquoted(FOO, "5"),
    Assign(MASTER_KEY_ENV, Plain(KeyEnvName), NoMeta),
    Assign(BAR, Plain("baz"), NoMeta),
    Assign(Enc(FOO), OldToken, OldMeta) }

IndentedFiles == UNION {[1..n -> IndentedLines] : n \in 1..MaxLen}

InitIndented ==
  /\ file \in IndentedFiles
  /\ env \in EnvValues
  /\ pyc = NoPyc
  /\ hist = <<>>

SpecIndented == InitIndented /\ [][Next]_vars

\* Files that may hold the disclaimer, with and without blanks before it.
HeaderLines ==
  { HEADER_DISCLAIMER, Indent(HEADER_DISCLAIMER), Comment("note"), Blank,
    HashedLine,
    Assign(FOO, Plain("bar"), NoMeta),
    Assign(Enc(FOO), OldToken, OldMeta) }

HeaderFiles == UNION {[1..n -> HeaderLines] : n \in 1..MaxLen}

InitHeader ==
  /\ file \in HeaderFiles
  /\ env \in EnvValues
  /\ pyc = NoPyc
  /\ hist = <<>>

SpecHeader == InitHeader /\ [][Next]_vars

\* Files of assignments, those encrypt-all takes for secrets and those it
\* passes over.
EncryptLines ==
  { HashedLine, Unquoted(FOO, "5"),
    Assign(MASTER_KEY_ENV, Plain(KeyEnvName), NoMeta),
    Assign(FOO, Plain("bar"), NoMeta), Assign(FOO, Plain(""), NoMeta),
    Assign(BAR, Plain("baz"), NoMeta),
    Assign(Enc(FOO), OldToken, OldMeta) }

EncryptFiles == UNION {[1..n -> EncryptLines] : n \in 1..MaxLen}

\* APP_KEY not set, or set to a key
EncryptEnvValues == {None, "K1"}

InitEncrypt ==
  /\ file \in EncryptFiles
  /\ env \in EncryptEnvValues
  /\ pyc = NoPyc
  /\ hist = <<>>

SpecEncrypt == InitEncrypt /\ [][Next]_vars

\* Files that may hold an assignment whose name is no identifier.
DottedLines ==
  { HEADER_DISCLAIMER, Blank, DottedLine, Indent(DottedLine),
    Unquoted(Dot(FOO), "5"),
    Assign(MASTER_KEY_ENV, Plain(KeyEnvName), NoMeta),
    Assign(FOO, Plain("bar"), NoMeta),
    Assign(Enc(FOO), OldToken, OldMeta) }

DottedFiles == UNION {[1..n -> DottedLines] : n \in 1..MaxLen}

InitDotted ==
  /\ file \in DottedFiles
  /\ env \in EnvValues
  /\ pyc = NoPyc
  /\ hist = <<>>

SpecDotted == InitDotted /\ [][Next]_vars

----------------------------------------------------------------------------
\* Vocabulary of the properties

Called == Len(hist) > 0
Last == hist[Len(hist)]
Prev == hist[Len(hist) - 1]
\* The file the i-th call left on disk
PostOf(i) == IF i = Len(hist) THEN file ELSE hist[i + 1].pre

Indices(lines) == 1..Len(lines)

\* The line classes of the specification: a line that is empty when trimmed
\* is Blank, else one that starts with "#" is a Comment, else one of the form
\* NAME = "value" is a secret or the key declaration, else it is Unrecognized
IsBlank(line) == line.k = "blank"
IsComment(line) == ~IsBlank(line) /\ line.ind = 0 /\ line.h = 1
IsCommentLineOrBlankLine(line) == IsComment(line) \/ IsBlank(line)
\* neither Comment, Blank, key declaration nor name = "value"
IsUnrecognized(line) ==
  /\ ~IsBlank(line) /\ ~IsComment(line)
  /\ ~(line.k = "assign" /\ line.ind = 0 /\ line.h = 0)
IsNoEquals(line) == line.k = "other" /\ ~IsComment(line)
IsDeclaration(line) == line.k \in {"unquoted", "assign"} /\ line.h = 0

\* The line declares the name: NAME = ...
Declares(line, name) == IsDeclaration(line) /\ line.n = name.n /\ line.s = name.s

\* A plain secret line: NAME = "value", NAME neither the key declaration nor
\* a name ending in _ENCRYPTED
IsPlainSecret(line) ==
  line.k = "assign" /\ line.h = 0 /\ line.s = 0 /\ line.n # MASTER_KEY_ENV.n

CommentsAndBlanks(lines) == SelectSeq(lines, IsCommentLineOrBlankLine)
Declarations(lines) == SelectSeq(lines, IsDeclaration)
NoEqualsLines(lines) == SelectSeq(lines, IsNoEquals)

\* A line whose text before "=" ends in _ENCRYPTED, and one that the last
\* call wrote: the file the call read has no line of that name
IsRecord(line) == HasEquals(line) /\ line.s > 0
WrittenByLast(line) ==
  /\ IsRecord(line)
  /\ \A j \in Indices(Last.pre) :
       ~(HasEquals(Last.pre[j]) /\ SplitName(Last.pre[j]) = SplitName(line))

\* A line with "=" that is no comment for the code although "#" stands
\* before its name: blanks, "# ", NAME = ...
IsHashed(line) == HasEquals(line) /\ line.ind = 1 /\ line.h = 1

RECURSIVE IsSubSeq(_, _)
\* The lines of part are lines of whole, in the same order
IsSubSeq(part, whole) ==
  IF part = <<>> THEN TRUE
  ELSE IF whole = <<>> THEN FALSE
  ELSE IF Head(part) = Head(whole) THEN IsSubSeq(Tail(part), Tail(whole))
  ELSE IsSubSeq(part, Tail(whole))

Count(lines, line) == Cardinality({i \in Indices(lines) : lines[i] = line})

\* The secret names a file's lines speak of, without their _ENCRYPTED suffixes
BaseNames(lines) ==
  {Name(lines[i].n) : i \in {j \in Indices(lines) : IsDeclaration(lines[j])}}

----------------------------------------------------------------------------
\* C1  delete-one(name) removes the plain line `name` and its counterpart
\* `name_ENCRYPTED`: after delete_secret(file, X) no line declares X or
\* X_ENCRYPTED, and all other lines are kept, unchanged and in order.
C1_NotPair(line) ==
  ~(Declares(line, Last.name) \/ Declares(line, Enc(Last.name)))

C1_DeleteRemovesPair ==
  (Called /\ Last.op = "delete" /\ Last.name.s = 0
     /\ \E i \in Indices(Last.pre) : Declares(Last.pre[i], Last.name))
    => file = SelectSeq(Last.pre, C1_NotPair)

\* C2  Empty-value exemption: a plain secret whose value is the empty string
\* is never encrypted by encrypt-all: no NAME_ENCRYPTED line is created for it
\* and it is not counted, also when the file has no NAME_ENCRYPTED line.
C2_OnlyEmpty(lines, name) ==
  /\ \E i \in Indices(lines) : Declares(lines[i], name)
  /\ \A i \in Indices(lines) :
       Declares(lines[i], name)
         => IsPlainSecret(lines[i]) /\ lines[i].v = Plain("")
  /\ \A i \in Indices(lines) : ~Declares(lines[i], Enc(name))

C2_NonEmptySecrets(lines) ==
  {i \in Indices(lines) :
     /\ IsDeclaration(lines[i]) /\ lines[i].s = 0
     /\ lines[i].n # MASTER_KEY_ENV.n /\ lines[i].v # Plain("")}

C2_EmptyNeverEncrypted ==
  (Called /\ Last.op = "encrypt")
    => /\ \A name \in BaseNames(Last.pre) :
            C2_OnlyEmpty(Last.pre, name)
              => \A i \in Indices(file) : ~Declares(file[i], Enc(name))
       /\ Last.ret <= Cardinality(C2_NonEmptySecrets(Last.pre))

\* C3  Idempotence of encrypt-all: of two runs in succession with the same
\* key, the second returns 0 and leaves the file exactly as the first left it.
C3_TwoRuns ==
  /\ Len(hist) >= 2
  /\ Prev.op = "encrypt" /\ Prev.status = "ok"
  /\ Last.op = "encrypt" /\ Last.status = "ok"
  /\ Prev.key = Last.key

C3_EncryptIdempotent ==
  C3_TwoRuns => Last.ret = 0 /\ file = Last.pre

\* C4  File-level round trip: for a file whose secret lines are
\* name = "value" with unique names, non-empty values and no _ENCRYPTED
\* line, encrypt-all then decrypt-all with the same key gives a file whose
\* declarations are exactly the original ones, in the original order.
C4_Eligible(lines) ==
  /\ \A i \in Indices(lines) :
       IsDeclaration(lines[i])
         => /\ lines[i].k = "assign" /\ lines[i].s = 0 /\ lines[i].ind = 0
            /\ lines[i].v.pt # "" /\ lines[i].m = NoMeta
  /\ \A i, j \in Indices(lines) :
       (IsDeclaration(lines[i]) /\ IsDeclaration(lines[j]) /\ i # j)
         => lines[i].n # lines[j].n

C4_EncryptThenDecrypt ==
  /\ Len(hist) >= 2
  /\ Prev.op = "encrypt" /\ Prev.status = "ok"
  /\ Last.op = "decrypt" /\ Last.status = "ok"
  /\ Prev.key = Last.key
  /\ C4_Eligible(Prev.pre)

C4_RoundTrip ==
  C4_EncryptThenDecrypt => Declarations(file) = Declarations(Prev.pre)

C4_Witness ==
  /\ C4_EncryptThenDecrypt
  /\ Prev.ret >= 1
  /\ Len(Declarations(Prev.pre)) >= 2
  /\ Last.pre # Prev.pre /\ file # Last.pre

\* C5  Encrypt-all is all-or-nothing on a cipher failure: when encrypting a
\* secret fails, the file on disk is exactly what it was before the call.
C5_EncryptAllOrNothing ==
  (Called /\ Last.op = "encrypt" /\ Truthy(Last.key) /\ Last.status = "exit")
    => file = Last.pre

\* C6  Decrypt-all is all-or-nothing on a cipher failure: when decrypting a
\* record fails, the file on disk is exactly what it was before the call.
C6_DecryptAllOrNothing ==
  (Called /\ Last.op = "decrypt" /\ Last.status = "raise") => file = Last.pre

\* C7  Decrypt-all with the key environment variable unset or empty ends with
\* an error and leaves the file as it was, whatever master_key argument is
\* passed.
C7_NoKey ==
  Called /\ Last.op = "decrypt" /\ ~Truthy(getenv(Last.keyenv))

C7_DecryptNoKeyNoWrite ==
  C7_NoKey => Last.status # "ok" /\ file = Last.pre

C7_Witness ==
  /\ C7_NoKey
  /\ Last.via = "call" /\ Last.arg = "K2"
  /\ \E i \in Indices(Last.pre) : Last.pre[i].s > 0
  /\ \E i \in Indices(Last.pre) : IsNoEquals(Last.pre[i])

\* C8  Encrypt-all with no usable key aborts before any write: encrypt_secrets
\* called without master_key while the key environment variable is unset or
\* empty fails and leaves the file exactly as it was.
C8_EncryptNoKeyNoWrite ==
  (Called /\ Last.op = "encrypt" /\ Last.via = "call"
     /\ ~Truthy(Last.arg) /\ ~Truthy(getenv(Last.keyenv))
     /\ \E i \in Indices(Last.pre) :
          IsPlainSecret(Last.pre[i]) /\ Last.pre[i].v # Plain(""))
    => Last.status # "ok" /\ file = Last.pre

\* C9  Non-destructiveness: every operation that completes without error
\* leaves every Comment line and every Blank line of its input in the
\* output, unchanged, the same number of times and in the same order.
C9_InInput(line) ==
  IsCommentLineOrBlankLine(line)
    /\ \E i \in Indices(Last.pre) : Last.pre[i] = line

C9_CommentsBlanksSameCount ==
  (Called /\ Last.status = "ok")
    => SelectSeq(file, C9_InInput) = CommentsAndBlanks(Last.pre)

\* C9 as amended: the comment and blank lines of the input are all in the
\* output, unchanged and in order.  encrypt-all alone adds lines that start
\* with "#": the disclaimer, at the top of a file whose first line, the
\* blanks around it aside, is not the disclaimer, and the two lines it writes
\* for a line that has blanks and "#" before NAME = ... (a plain name).
C9_HeaderAdded(call) ==
  call.op = "encrypt" /\ ~IsDisclaimer(call.pre[1])

C9_HashedSecret(line) == IsHashed(line) /\ line.s = 0

C9_Added(call) ==
  IF call.op # "encrypt" THEN 0
  ELSE (IF C9_HeaderAdded(call) THEN 1 ELSE 0)
       + 2 * Len(SelectSeq(call.pre, C9_HashedSecret))

C9_CommentsBlanksKept ==
  \A i \in Indices(hist) :
    hist[i].status = "ok"
      => /\ IsSubSeq(CommentsAndBlanks(hist[i].pre),
                     CommentsAndBlanks(PostOf(i)))
         /\ Len(CommentsAndBlanks(PostOf(i)))
              = Len(CommentsAndBlanks(hist[i].pre)) + C9_Added(hist[i])
         /\ C9_HeaderAdded(hist[i]) => PostOf(i)[1] = HEADER_DISCLAIMER

C9_Witness ==
  /\ Len(hist) >= 2
  /\ Prev.op = "encrypt" /\ Prev.status = "ok" /\ C9_HeaderAdded(Prev)
  /\ Last.op = "decrypt" /\ Last.status = "ok"
  /\ \E i \in Indices(Prev.pre) : IsComment(Prev.pre[i])
  /\ \E i \in Indices(Prev.pre) : IsBlank(Prev.pre[i])
  /\ CommentsAndBlanks(file) # CommentsAndBlanks(Prev.pre)

\* C10  Unrecognized lines are never silently dropped: a line that is neither
\* Comment, Blank, key declaration nor name = "value" is written back
\* verbatim by encrypt-all and by decrypt-all, and is never encrypted.
C10_UnrecognizedKept ==
  (Called /\ Last.op \in {"encrypt", "decrypt"} /\ Last.status = "ok")
    => SelectSeq(file, IsUnrecognized) = SelectSeq(Last.pre, IsUnrecognized)

\* C10 as amended: encrypt-all writes back verbatim, and never encrypts, the
\* lines that have no "=" (an assignment without quotes is encrypted like any
\* secret); decrypt-all writes comments, blanks and the quoted assignments
\* only, and removes every other line.
C10_FromQuoted(lines, name) ==
  \E i \in Indices(lines) :
    /\ lines[i].k = "assign"
    /\ Identifier(lines[i]) \in {name, Enc(name)}

C10_UnrecognizedByOperation ==
  /\ (Called /\ Last.op = "encrypt" /\ Last.status = "ok")
       => /\ NoEqualsLines(file) = NoEqualsLines(Last.pre)
          /\ BaseNames(file) \subseteq BaseNames(Last.pre)
          /\ \A i \in Indices(file) :
               file[i].k = "unquoted"
                 => file[i].s > 0 \/ KeyDeclMatch(file[i])
  /\ (Called /\ Last.op = "decrypt" /\ Last.status = "ok")
       => \A i \in Indices(file) :
            \/ IsCommentLineOrBlankLine(file[i])
            \/ /\ file[i].k = "assign"
               /\ C10_FromQuoted(Last.pre, SplitName(file[i]))

C10_Witness ==
  /\ Called /\ Last.op \in {"encrypt", "decrypt"} /\ Last.status = "ok"
  /\ \E i \in Indices(Last.pre) : IsNoEquals(Last.pre[i])
  /\ \E i \in Indices(Last.pre) : Last.pre[i].k = "unquoted"
  /\ file # Last.pre

\* C11  Per-record signature: the signature encrypt-all stores with a record
\* is a function of that record's ciphertext, timestamp and key-env-name (and
\* not of the key), so two records written with different ciphertexts carry
\* signatures of different hash inputs.
C11_Written(i) == WrittenByLast(file[i])

C11_SignatureOfRecord ==
  (Called /\ Last.op = "encrypt" /\ Last.status = "ok")
    => \A i, j \in Indices(file) :
         (C11_Written(i) /\ C11_Written(j)
            /\ <<file[i].v, file[i].m.ts, file[i].m.env>>
                 # <<file[j].v, file[j].m.ts, file[j].m.env>>)
           => file[i].m.sig # file[j].m.sig

\* Files in which a record's metadata was edited after encrypt_secrets wrote
\* it: the 8 characters of BAR_ENCRYPTED's signature are no hash of anything.
EditedSig == [alg |-> "edited", key |-> ""]
TamperedLine ==
  Assign(Enc(BAR), encrypt_value(Plain("baz"), "K1", 2).val,
         [env |-> KeyEnvName, sig |-> EditedSig, ts |-> 1])

TamperedFiles ==
  UNION {[1..n -> InitLines \cup {TamperedLine}] : n \in 1..MaxLen}

InitTampered ==
  /\ file \in TamperedFiles
  /\ env \in EnvValues
  /\ pyc = NoPyc
  /\ hist = <<>>

SpecTampered == InitTampered /\ [][Next]_vars

\* C12  Decrypt-all verifies a record's stored signature before decrypting
\* it: a record whose signature is not the one recomputed for it is not
\* decrypted, and its plain value is not written to the file.
C12_SignatureDisagrees(line, master_key) ==
  line.k = "assign" /\ line.s > 0 /\ line.m.sig # Signature(master_key)

C12_DecryptVerifiesSignature ==
  (Called /\ Last.op = "decrypt")
    => \A i \in Indices(Last.pre) :
         C12_SignatureDisagrees(Last.pre[i], Last.key)
           => \A j \in Indices(file) :
                ~(/\ Declares(file[j], Strip10(SplitName(Last.pre[i])))
                  /\ file[j].v = decrypt_value(Last.pre[i].v, Last.key).val
                  /\ decrypt_value(Last.pre[i].v, Last.key).ok)

\* C13  Pair invariant: starting from a file in which every name is declared
\* at most once, after any sequence of operations every name still has at
\* most one plain line and at most one _ENCRYPTED line, no line
\* X_ENCRYPTED_ENCRYPTED exists, and MASTER_KEY_ENV is not encrypted.
C13_InitialFile == IF hist = <<>> THEN file ELSE hist[1].pre

C13_DeclaredOnce(lines) ==
  \A i \in Indices(lines) :
    IsDeclaration(lines[i])
      => \A j \in (i + 1)..Len(lines) :
           ~Declares(lines[j], SplitName(lines[i]))

C13_PairInvariant ==
  C13_DeclaredOnce(C13_InitialFile)
    => /\ C13_DeclaredOnce(file)
       /\ \A i \in Indices(file) :
            IsDeclaration(file[i])
              => /\ file[i].s <= 1
                 /\ ~Declares(file[i], Enc(MASTER_KEY_ENV))
                 /\ Declares(file[i], MASTER_KEY_ENV)
                      => file[i].v.layers = <<>>

\* C14  After a successful encrypt-all, every plain line X of the output
\* whose name has a line X_ENCRYPTED in the output has the empty value, for
\* the secrets encrypted by this run and for those that already had their
\* counterpart: these are skipped, not counted, their X_ENCRYPTED line
\* left as it was.
C14_HasCounterpart(lines, name) ==
  name.h = 0 /\ \E j \in Indices(lines) : Declares(lines[j], Enc(name))

C14_Record(line) == IsRecord(line)
C14_OldRecord(line) == C14_Record(line) /\ ~WrittenByLast(line)

C14_ToEncrypt(lines) ==
  {i \in Indices(lines) :
     /\ HasEquals(lines[i]) /\ ~IsComment(lines[i]) /\ lines[i].s = 0
     /\ ~C14_HasCounterpart(lines, SplitName(lines[i]))}

C14_PlainEmptyWhenEncrypted ==
  (Called /\ Last.op = "encrypt" /\ Last.status = "ok")
    => /\ \A i \in Indices(file) :
            (IsDeclaration(file[i]) /\ file[i].s = 0
               /\ C14_HasCounterpart(file, SplitName(file[i])))
              => file[i].k = "assign" /\ file[i].v = Plain("")
       /\ SelectSeq(file, C14_OldRecord) = SelectSeq(Last.pre, C14_Record)
       /\ Last.ret <= Cardinality(C14_ToEncrypt(Last.pre))

C14_Witness ==
  /\ Called /\ Last.op = "encrypt" /\ Last.status = "ok"
  /\ \E i \in Indices(Last.pre) :
       /\ IsPlainSecret(Last.pre[i]) /\ Last.pre[i].v # Plain("")
       /\ C14_HasCounterpart(Last.pre, SplitName(Last.pre[i]))
  /\ file # Last.pre

\* C15  Decrypt-all frame condition: every plain secret line whose name has
\* no _ENCRYPTED line, and every key declaration, is in the output with the
\* same name and value at the same relative position; decrypt-all changes
\* only secrets that have an encrypted counterpart, so every line that is not
\* of such a secret is in the output as it was.
C15_Paired(line) ==
  /\ IsDeclaration(line) /\ line.n # MASTER_KEY_ENV.n
  /\ \E j \in Indices(Last.pre) : Declares(Last.pre[j], Enc(Name(line.n)))

C15_Unpaired(line) == ~C15_Paired(line)

C15_DecryptChangesPairsOnly ==
  (Called /\ Last.op = "decrypt" /\ Last.status = "ok")
    => SelectSeq(file, C15_Unpaired) = SelectSeq(Last.pre, C15_Unpaired)

\* C15 as amended: of the lines that are not of a secret with an encrypted
\* counterpart, the output has, in order, the comments, the blanks and the
\* key declarations as they were, and for every other line holding
\* NAME = "value" the line NAME = "value" alone, without what the input line
\* had before the name and after the closing quote; the lines holding no
\* quoted assignment are removed.
C15_Framed(line) ==
  /\ IsCommentLineOrBlankLine(line) \/ line.k = "assign"
  /\ ~(/\ ~IsCommentLineOrBlankLine(line) /\ line.n # MASTER_KEY_ENV.n
       /\ \E j \in Indices(Last.pre) :
            Declares(Last.pre[j], Enc(Name(line.n))))

\* What decrypt-all writes for a line it keeps
C15_Kept(line) ==
  IF IsCommentLineOrBlankLine(line) \/ Identifier(line) = MASTER_KEY_ENV
  THEN line
  ELSE Assign(Identifier(line), QuotedValue(line.v), NoMeta)

C15_DecryptFrame ==
  (Called /\ Last.op = "decrypt" /\ Last.status = "ok")
    => LET framed == SelectSeq(Last.pre, C15_Framed)
       IN SelectSeq(file, C15_Unpaired)
            = [k \in Indices(framed) |-> C15_Kept(framed[k])]

C15_Witness ==
  /\ Called /\ Last.op = "decrypt" /\ Last.status = "ok"
  /\ \E i \in Indices(Last.pre) :
       IsPlainSecret(Last.pre[i]) /\ C15_Unpaired(Last.pre[i])
  /\ \E i \in Indices(Last.pre) : Last.pre[i].s > 0
  /\ file # Last.pre

\* C16  set-key-declaration rewrites only the MASTER_KEY_ENV line, whose
\* value becomes env_name; every other line stays, unchanged and at its
\* place, and a file with no key declaration is left as it was.
C16_SetKeyRewritesDeclarationOnly ==
  (Called /\ Last.op = "setkey")
    => /\ Len(file) = Len(Last.pre)
       /\ \A i \in Indices(Last.pre) :
            IF Declares(Last.pre[i], MASTER_KEY_ENV)
            THEN /\ Declares(file[i], MASTER_KEY_ENV)
                 /\ file[i].k = "assign" /\ file[i].v = Plain(Last.keyenv)
            ELSE file[i] = Last.pre[i]

C16_Witness ==
  /\ Called /\ Last.op = "setkey"
  /\ \E i \in Indices(Last.pre) :
       Declares(Last.pre[i], MASTER_KEY_ENV)
         /\ Last.pre[i].v # Plain(Last.keyenv)
  /\ \E i \in Indices(Last.pre) :
       IsDeclaration(Last.pre[i]) /\ ~Declares(Last.pre[i], MASTER_KEY_ENV)
  /\ file # Last.pre

\* C17  List is read-only and filtered: list_secrets leaves the file as it
\* is and emits, in file order, one name for each plain secret, encrypted
\* secret and key declaration line, and nothing for a Comment, Blank or
\* Unrecognized line.
C17_Recognized(line) == line.k = "assign"
C17_NameOf(line) == [n |-> line.n, s |-> line.s, h |-> line.h]

C17_Emits(out, lines) ==
  /\ Len(out) = Len(lines)
  /\ \A k \in Indices(lines) : out[k] = C17_NameOf(lines[k])

C17_ListFiltered ==
  (Called /\ Last.op = "list")
    => /\ file = Last.pre
       /\ C17_Emits(Last.out, SelectSeq(Last.pre, C17_Recognized))

\* C17 as amended: list_secrets leaves the file as it is and emits one name
\* for each line that is neither Comment nor Blank, Unrecognized lines
\* included: the text before the first "=", the whole line when it has none.
C17_NotCommentOrBlank(line) == ~IsCommentLineOrBlankLine(line)

C17_ListAllButCommentsAndBlanks ==
  (Called /\ Last.op = "list")
    => /\ file = Last.pre
       /\ C17_Emits(Last.out, SelectSeq(Last.pre, C17_NotCommentOrBlank))

C17_Witness ==
  /\ Called /\ Last.op = "list"
  /\ \E i \in Indices(Last.pre) : IsUnrecognized(Last.pre[i])
  /\ \E i \in Indices(Last.pre) : C17_Recognized(Last.pre[i])
  /\ Len(Last.out) = 2

\* C18  The disclaimer is present after every write that mutates secrets:
\* after a successful encrypt-all, decrypt-all or delete-one on a non-empty
\* file the output has the HEADER_DISCLAIMER line, and exactly once when the
\* initial file had none or had it as its first line.  A line counts as the
\* disclaimer with or without blanks around it.
C18_IsHeader(line) == line = HEADER_DISCLAIMER
C18_Headers(lines) == Len(SelectSeq(lines, IsDisclaimer))

C18_InitialHeaderOk ==
  LET initial == C13_InitialFile
      headers == C18_Headers(initial)
  IN headers = 0 \/ (headers = 1 /\ initial[1] = HEADER_DISCLAIMER)

C18_HeaderAfterEveryWrite ==
  (Called /\ Last.op \in {"encrypt", "decrypt", "delete"}
     /\ Last.status = "ok" /\ Last.pre # <<>>
     /\ file # Last.pre /\ file # <<>>)
    => /\ C18_Headers(file) >= 1
       /\ C18_InitialHeaderOk => C18_Headers(file) = 1

\* C18 as amended: encrypt-all alone writes the disclaimer, as the first line
\* of its output, unless the first line it read is the disclaimer already,
\* the blanks around it aside; decrypt-all and delete-one add none: they keep
\* the disclaimer lines they find, and decrypt-all removes those that have
\* blanks before them.  When the initial file had none, or had just one, as
\* its first line and without blanks, the file has it at most once, and
\* exactly once, as its first line, from the first successful encrypt-all on.
C18_ExactHeaders(lines) == SelectSeq(lines, C18_IsHeader)
C18_Encrypted ==
  \E i \in Indices(hist) : hist[i].op = "encrypt" /\ hist[i].status = "ok"

C18_HeaderByEncryptOnly ==
  /\ (Called /\ Last.op = "encrypt" /\ Last.status = "ok")
       => /\ file # <<>> /\ IsDisclaimer(file[1])
          /\ C18_Headers(file)
               = C18_Headers(Last.pre) + (IF C9_HeaderAdded(Last) THEN 1 ELSE 0)
  /\ (Called /\ Last.op \in {"decrypt", "delete"} /\ Last.status = "ok")
       => /\ C18_ExactHeaders(file) = C18_ExactHeaders(Last.pre)
          /\ C18_Headers(file)
               = IF Last.op = "delete" THEN C18_Headers(Last.pre)
                 ELSE Len(C18_ExactHeaders(Last.pre))
  /\ C18_InitialHeaderOk
       => IF C18_Encrypted
          THEN C18_Headers(file) = 1 /\ file[1] = HEADER_DISCLAIMER
          ELSE C18_Headers(file) <= 1

C18_Witness ==
  /\ Len(hist) = 2 /\ C18_Headers(C13_InitialFile) = 0
  /\ Prev.op = "encrypt" /\ Prev.status = "ok"
  /\ Last.op \in {"decrypt", "delete"} /\ Last.status = "ok"
  /\ file # Last.pre

\* C19  encrypt-all returns the number of secrets it newly encrypted, which
\* is the number of _ENCRYPTED lines of the output that were not in the
\* input; each of them stands right after the line name = "" that replaces
\* the original line at its position, and carries the metadata
\* #<key-env-name>,<signature>,<timestamp>.
C19_Record(line) == IsRecord(line)
C19_NewRecord(line) == WrittenByLast(line)
C19_NotNewRecord(line) == ~C19_NewRecord(line)

\* The output without the records and the disclaimer this run added
C19_Rewritten ==
  LET rest == SelectSeq(file, C19_NotNewRecord)
  IN IF C9_HeaderAdded(Last) THEN Tail(rest) ELSE rest

C19_CountAndPlacement ==
  (Called /\ Last.op = "encrypt" /\ Last.status = "ok")
    => /\ Last.ret = Len(SelectSeq(file, C19_NewRecord))
       /\ Last.ret = Len(SelectSeq(file, C19_Record))
                       - Len(SelectSeq(Last.pre, C19_Record))
       /\ \A i \in Indices(file) :
            C19_NewRecord(file[i])
              => /\ i > 1
                 /\ file[i - 1]
                      = Assign(Strip10(SplitName(file[i])), Plain(""), NoMeta)
                 /\ file[i].k = "assign"
                 /\ file[i].m.env = Last.keyenv
                 /\ file[i].m.sig # NoSig
                 /\ file[i].m.ts # NoMeta.ts
                 /\ decrypt_value(file[i].v, Last.key).ok
       /\ LET rewritten == C19_Rewritten
          IN /\ Len(rewritten) = Len(Last.pre)
             /\ \A k \in Indices(Last.pre) :
                  \/ rewritten[k] = Last.pre[k]
                  \/ /\ HasEquals(Last.pre[k]) /\ Last.pre[k].s = 0
                     /\ rewritten[k]
                          = Assign(SplitName(Last.pre[k]), Plain(""), NoMeta)

C19_Witness ==
  /\ Called /\ Last.op = "encrypt" /\ Last.status = "ok"
  /\ Last.ret >= 1
  /\ \E i \in Indices(Last.pre) : C19_Record(Last.pre[i])
  /\ \E i \in Indices(file) : C19_NewRecord(file[i]) /\ i > 2

\* C20  No secret value is lost by encrypt-all or decrypt-all: every
\* non-empty plain value v of a secret X before a successful pass can be
\* recovered after it, as the plain value of X or by decrypting X_ENCRYPTED
\* under the key of the pass, also when X already had a line X_ENCRYPTED
\* with an older value.
C20_Recoverable(lines, name, value, key) ==
  \E j \in Indices(lines) :
    \/ Declares(lines[j], name) /\ lines[j].v = value
    \/ /\ Declares(lines[j], Enc(name))
       /\ decrypt_value(lines[j].v, key).ok
       /\ decrypt_value(lines[j].v, key).val = value

C20_NoValueLost ==
  (Called /\ Last.op \in {"encrypt", "decrypt"} /\ Last.status = "ok")
    => \A i \in Indices(Last.pre) :
         (IsPlainSecret(Last.pre[i]) /\ Last.pre[i].v # Plain(""))
           => C20_Recoverable(file, SplitName(Last.pre[i]), Last.pre[i].v,
                              Last.key)

====
